---- MODULE Spec2Model ----
(***************************************************************************)
(* Model of pkg/skaffold/deploy/kustomize.go: the kustomize deployer.      *)
(*                                                                         *)
(* A path is a sequence of components; an absolute path starts with the    *)
(* component "/".  The empty sequence is Go's empty string.  The file      *)
(* system is a tree of directories below the working directory Cwd; each   *)
(* directory may hold a kustomization file (raw, as written) and plain     *)
(* files.  There are no symbolic links, so the kernel's resolution of a    *)
(* path agrees with its lexical cleaning.                                  *)
(***************************************************************************)
EXTENDS Integers, Sequences, FiniteSets, TLC

VARIABLES
    KustomizePaths, \* k.KustomizePaths, fixed at construction
    op,             \* the operation in progress
    pc,             \* its position
    tree,           \* the file system the running Dependencies() reads
    stack,          \* call stack of dependenciesForKustomization frames
    pathIdx,        \* loop index of Dependencies() / readManifests()
    deps,           \* the stringSet of Dependencies()
    returns,        \* what each top-level resolve call returned (history)
    lastRet,        \* the last return of dependenciesForKustomization (history)
    lastProbe,      \* the last local bases/resources entry handled (history)
    result,         \* what Dependencies() returned
    calls,          \* collaborator calls of the running Deploy/Render, in order
    manifests,      \* the manifest list inside renderManifests / readManifests
    transformIdx,   \* loop index over manifestTransforms
    render,         \* what renderManifests returned
    namespaces,     \* what CollectNamespaces returned to Deploy
    applied,        \* the manifest list handed to kubectl.Apply
    events,         \* event.* calls of Deploy, in order
    deployResult    \* what Deploy / Render returned

vars == <<KustomizePaths, op, pc, tree, stack, pathIdx, deps, returns, lastRet,
          lastProbe, result, calls, manifests, transformIdx, render, namespaces,
          applied, events, deployResult>>

depVars == <<tree, stack, deps, returns, lastRet, lastProbe, result>>
runVars == <<calls, manifests, transformIdx, render, namespaces, applied, events, deployResult>>

----------------------------------------------------------------------------
(* Bounds *)

\* longest list of configured overlay paths
MaxPaths == 2
\* frames the goroutine stack holds before the runtime aborts the process
MaxStack == 4
\* number of registered manifestTransforms
NumTransforms == 2

----------------------------------------------------------------------------
(* Paths: path/filepath *)

Last(s) == s[Len(s)]
Front(s) == SubSeq(s, 1, Len(s) - 1)
Range(s) == {s[i] : i \in 1..Len(s)}

IsAbs(p) == Len(p) > 0 /\ p[1] = "/"

RECURSIVE CleanFrom(_, _, _)
CleanFrom(p, i, acc) ==
    IF i > Len(p) THEN (IF acc = <<>> THEN <<".">> ELSE acc)
    ELSE LET c == p[i] IN
         CASE c = "/"  -> CleanFrom(p, i + 1, IF i = 1 THEN <<"/">> ELSE acc)
           [] c = "."  -> CleanFrom(p, i + 1, acc)
           [] c = ".." -> CleanFrom(p, i + 1,
                             IF acc = <<"/">> THEN acc
                             ELSE IF acc = <<>> \/ Last(acc) = ".." THEN Append(acc, "..")
                             ELSE Front(acc))
           [] OTHER    -> CleanFrom(p, i + 1, Append(acc, c))

\* filepath.Clean
Clean(p) == CleanFrom(p, 1, <<>>)

\* filepath.Join(a, b): empty elements are ignored, the rest joined with a
\* separator and cleaned, so a leading separator of b is swallowed.
Join(a, b) ==
    IF a = <<>> /\ b = <<>> THEN <<>>
    ELSE IF a = <<>> THEN Clean(b)
    ELSE Clean(a \o b)

----------------------------------------------------------------------------
(* The file system *)

Cwd == <<"/", "r">>
DirA == <<"/", "r", "a">>
DirB == <<"/", "r", "b">>
DirC == <<"/", "r", "c">>

\* yaml.v3 node styles (a bit set; 0 is a plain scalar)
TaggedStyle == 1
DoubleQuotedStyle == 2
SingleQuotedStyle == 4
LiteralStyle == 8
FoldedStyle == 16

Node(style, value) == [Style |-> style, Value |-> value]
\* a patches entry as written: a {path, patch} mapping or a bare string
MapEntry(path, patch) == [kind |-> "map", path |-> path, patch |-> patch]
StrEntry(value) == [kind |-> "str", path |-> value, patch |-> <<>>]
Gen(files, env, envs) == [Files |-> files, Env |-> env, Envs |-> envs]

EmptyRaw ==
    [bases |-> <<>>, resources |-> <<>>, patches |-> <<>>,
     patchesStrategicMerge |-> <<>>, crds |-> <<>>, patchesJson6902 |-> <<>>,
     configMapGenerator |-> <<>>, secretGenerator |-> <<>>]

\* the ways a patch or generator section is written in the modelled overlays
PatchVariants ==
    { [EmptyRaw EXCEPT !.patchesStrategicMerge =
          <<Node(0, <<"patch.yaml">>), Node(DoubleQuotedStyle, <<"quoted.yaml">>),
            Node(LiteralStyle, <<"spec: {}">>)>>],
      [EmptyRaw EXCEPT !.patchesStrategicMerge =
          <<Node(SingleQuotedStyle, <<"single.yaml">>), Node(FoldedStyle, <<"folded: {}">>),
            Node(TaggedStyle, <<"tagged.yaml">>), Node(0, <<>>)>>],
      [EmptyRaw EXCEPT !.patches =
          <<MapEntry(<<"p1.yaml">>, <<>>), MapEntry(<<>>, <<"inline: {}">>)>>],
      [EmptyRaw EXCEPT !.patches =
          <<StrEntry(<<"old.yaml">>), MapEntry(<<"both.yaml">>, <<"also: {}">>),
            MapEntry(<<>>, <<>>)>>],
      [EmptyRaw EXCEPT !.patches = <<MapEntry(<<"/", "r", "c", "abs.yaml">>, <<>>)>>],
      [EmptyRaw EXCEPT !.crds = <<<<"crd.yaml">>>>,
                       !.patchesJson6902 = <<<<"json.yaml">>, <<>>>>],
      [EmptyRaw EXCEPT
          !.configMapGenerator = <<Gen(<<<<"cfg.properties">>>>, <<"app.env">>, <<>>)>>,
          !.secretGenerator = <<Gen(<<>>, <<>>, <<<<"secret.env">>>>)>>] }

\* the ways bases and resources are written in overlay a
ResourceVariants ==
    { [EmptyRaw EXCEPT !.resources = r] :
        r \in { <<>>,
                <<<<"deploy.yaml">>>>,
                <<<<"..", "b">>>>,
                <<<<"..", "b">>, <<"deploy.yaml">>>>,
                <<<<"..", "c">>>>,
                <<<<".">>>>,
                <<<<"/", "r", "b">>>>,
                <<<<"/", "r", "c", "svc.yaml">>>>,
                <<<<"github.com", "org", "repo">>>>,
                <<<<"missing.yaml">>, <<"deploy.yaml">>>> } }
    \cup { [EmptyRaw EXCEPT !.bases = <<<<"..", "b">>>>, !.resources = <<<<"..", "c">>>>],
           [EmptyRaw EXCEPT !.bases = <<<<"..", "c">>>>, !.resources = <<<<"deploy.yaml">>>>] }

KFile(name, state, raw) == [name |-> name, state |-> state, raw |-> raw]
NoKFile == KFile("none", "ok", EmptyRaw)

ConfigsA ==
    { KFile("kustomization.yaml", "ok", raw) : raw \in ResourceVariants \cup PatchVariants }
    \cup { NoKFile, KFile("kustomization.yaml", "malformed", EmptyRaw) }

ConfigsB ==
    { KFile("kustomization.yml", "ok", raw) :
        raw \in { EmptyRaw,
                  [EmptyRaw EXCEPT !.resources = <<<<"deploy.yaml">>>>,
                                   !.patchesStrategicMerge = <<Node(0, <<"patch.yaml">>)>>],
                  [EmptyRaw EXCEPT !.resources = <<<<"..", "a">>>>],
                  [EmptyRaw EXCEPT !.resources = <<<<"..", "c">>, <<"deploy.yaml">>>>] } }
    \cup { NoKFile, KFile("kustomization.yml", "malformed", EmptyRaw),
           KFile("Kustomization", "unreadable", EmptyRaw) }

ConfigsC ==
    { NoKFile,
      KFile("Kustomization", "ok", [EmptyRaw EXCEPT !.resources = <<<<"svc.yaml">>>>]),
      KFile("Kustomization", "ok", [EmptyRaw EXCEPT !.resources = <<<<"..", "b">>>>]) }

\* plain files present in each directory (unused.yaml is referenced by nothing)
PlainFiles(d) ==
    CASE d = DirA -> {"deploy.yaml", "patch.yaml", "unused.yaml"}
      [] d = DirB -> {"deploy.yaml", "patch.yaml", "unused.yaml"}
      [] d = DirC -> {"svc.yaml", "abs.yaml", "unused.yaml"}
      [] OTHER    -> {}

Trees ==
    { [d \in {DirA, DirB, DirC} |-> IF d = DirA THEN ca ELSE IF d = DirB THEN cb ELSE cc] :
        ca \in ConfigsA, cb \in ConfigsB, cc \in ConfigsC }

EmptyTree == [d \in {DirA, DirB, DirC} |-> NoKFile]

\* the absolute path the kernel resolves p to
Resolve(p) == IF IsAbs(p) THEN Clean(p) ELSE Clean(Cwd \o p)

IsDirAt(t, abs) == abs = Cwd \/ abs = <<"/">> \/ abs \in DOMAIN t

IsFileAt(t, abs) ==
    /\ Len(abs) > 1
    /\ Front(abs) \in DOMAIN t
    /\ \/ Last(abs) \in PlainFiles(Front(abs))
       \/ t[Front(abs)].name = Last(abs)

\* os.Stat(path): "none" is an error
Stat(t, path) ==
    LET abs == Resolve(path) IN
    IF path = <<>> THEN "none"
    ELSE IF IsDirAt(t, abs) THEN "dir"
    ELSE IF IsFileAt(t, abs) THEN "file"
    ELSE "none"

----------------------------------------------------------------------------
(* Parsing a kustomization file *)

\* a variant that takes only a plain scalar for a path
strategicMergePatchPlainOnly(node) ==
    IF node.Style = 0
    THEN [Path |-> node.Value, Patch |-> <<>>]
    ELSE [Path |-> <<>>, Patch |-> node.Value]

\* strategicMergePatch.UnmarshalYAML
strategicMergePatchUnmarshalYAML(node) ==
    IF node.Style = 0 \/ node.Style = DoubleQuotedStyle \/ node.Style = SingleQuotedStyle
    THEN [Path |-> node.Value, Patch |-> <<>>]
    ELSE [Path |-> <<>>, Patch |-> node.Value]

\* unmarshal(&pp) into a patchPath: a mapping fills the fields it writes, a
\* scalar is a type error
unmarshalPatchPath(entry) ==
    IF entry.kind = "map"
    THEN [err |-> FALSE, pp |-> [Path |-> entry.path, Patch |-> entry.patch]]
    ELSE [err |-> TRUE, pp |-> [Path |-> <<>>, Patch |-> <<>>]]

\* a variant that drops the bare string instead of taking it for the path
patchWrapperDropsString(entry) == unmarshalPatchPath(entry).pp

\* patchWrapper.UnmarshalYAML
patchWrapperUnmarshalYAML(entry) ==
    LET first == unmarshalPatchPath(entry) IN
    IF first.err
    THEN [first.pp EXCEPT !.Path = entry.path] \* oldPathString
    ELSE first.pp

patchJSON6902Of(path) == [Path |-> path]

\* yaml.Unmarshal(buf, &content) of a well-formed file
Unmarshal(raw) ==
    [Bases                 |-> raw.bases,
     Resources             |-> raw.resources,
     Patches               |-> [i \in 1..Len(raw.patches) |->
                                  patchWrapperUnmarshalYAML(raw.patches[i])],
     PatchesStrategicMerge |-> [i \in 1..Len(raw.patchesStrategicMerge) |->
                                  strategicMergePatchUnmarshalYAML(raw.patchesStrategicMerge[i])],
     CRDs                  |-> raw.crds,
     PatchesJSON6902       |-> [i \in 1..Len(raw.patchesJson6902) |->
                                  patchJSON6902Of(raw.patchesJson6902[i])],
     ConfigMapGenerator    |-> raw.configMapGenerator,
     SecretGenerator       |-> raw.secretGenerator]

----------------------------------------------------------------------------
(* Locating and probing *)

kustomizeFilePaths == <<<<"kustomization.yaml">>, <<"kustomization.yml">>, <<"Kustomization">>>>

\* pathExistsLocally; path is the path it handed to os.Stat
pathExistsLocally(t, filename, workingDir) ==
    LET path == IF ~IsAbs(filename) THEN Join(workingDir, filename) ELSE filename
        st   == Stat(t, path)
    IN [local |-> st # "none", isDir |-> st = "dir", path |-> path]

\* a variant that returns the first accepted name without probing for it
findKustomizationConfigUnprobed(t, dir) ==
    [err |-> FALSE, path |-> Join(dir, kustomizeFilePaths[1])]

\* findKustomizationConfig
findKustomizationConfig(t, dir) ==
    LET hits == {i \in 1..Len(kustomizeFilePaths) :
                    pathExistsLocally(t, kustomizeFilePaths[i], dir).local}
    IN IF hits = {} THEN [err |-> TRUE, path |-> <<>>]
       ELSE LET i == CHOOSE h \in hits : \A g \in hits : h <= g
            IN [err |-> FALSE, path |-> Join(dir, kustomizeFilePaths[i])]

\* ioutil.ReadFile(path)
ReadFile(t, path) ==
    LET abs == Resolve(path) IN
    IF Stat(t, path) # "file" THEN [err |-> TRUE, kfile |-> NoKFile]
    ELSE IF t[Front(abs)].name = Last(abs)
         THEN [err |-> t[Front(abs)].state = "unreadable", kfile |-> t[Front(abs)]]
         ELSE [err |-> FALSE, kfile |-> NoKFile]

\* util.AbsolutePaths(workspace, paths)
AbsolutePaths(workspace, paths) ==
    [i \in 1..Len(paths) |-> IF IsAbs(paths[i]) THEN paths[i] ELSE Join(workspace, paths[i])]

----------------------------------------------------------------------------
(* dependenciesForKustomization, lines 288-324: what a config adds besides  *)
(* its bases and resources                                                  *)

\* the entries with a non-empty Path, joined with dir
PathDeps(dir, entries) ==
    LET f[i \in 0..Len(entries)] ==
            IF i = 0 THEN <<>>
            ELSE IF entries[i].Path # <<>>
                 THEN Append(f[i - 1], Join(dir, entries[i].Path))
                 ELSE f[i - 1]
    IN f[Len(entries)]

GeneratorDeps(dir, generators) ==
    LET envs(g) == IF g.Env # <<>> THEN Append(g.Envs, g.Env) ELSE g.Envs
        f[i \in 0..Len(generators)] ==
            IF i = 0 THEN <<>>
            ELSE f[i - 1] \o AbsolutePaths(dir, generators[i].Files)
                          \o AbsolutePaths(dir, envs(generators[i]))
    IN f[Len(generators)]

OwnDeps(dir, content) ==
    PathDeps(dir, content.PatchesStrategicMerge)
        \o AbsolutePaths(dir, content.CRDs)
        \o PathDeps(dir, content.Patches)
        \o PathDeps(dir, content.PatchesJSON6902)
        \o GeneratorDeps(dir, content.ConfigMapGenerator)
        \o GeneratorDeps(dir, content.SecretGenerator)

----------------------------------------------------------------------------
(* stringSet: the set Dependencies() collects into *)

newStringSet == {}

insert(set, strings) == set \cup Range(strings)

\* component names in byte order, for sort.Strings
Alphabet ==
    <<"..", ".", "/", "Kustomization", "a", "abs.yaml", "also: {}", "app.env", "b",
      "both.yaml", "c", "cfg.properties", "crd.yaml", "deploy.yaml", "folded: {}",
      "github.com", "inline: {}", "json.yaml", "kustomization.yaml",
      "kustomization.yml", "missing.yaml", "old.yaml", "org", "p1.yaml", "patch.yaml",
      "quoted.yaml", "r", "repo", "secret.env", "single.yaml", "spec: {}", "svc.yaml",
      "tagged.yaml", "unused.yaml">>

Rank(name) == CHOOSE i \in 1..Len(Alphabet) : Alphabet[i] = name

RECURSIVE PathLess(_, _)
PathLess(p, q) ==
    IF q = <<>> THEN FALSE
    ELSE IF p = <<>> THEN TRUE
    ELSE IF p[1] = q[1] THEN PathLess(Tail(p), Tail(q))
    ELSE Rank(p[1]) < Rank(q[1])

RECURSIVE toList(_)
toList(set) ==
    IF set = {} THEN <<>>
    ELSE LET least == CHOOSE x \in set : \A y \in set \ {x} : PathLess(x, y)
         IN <<least>> \o toList(set \ {least})

----------------------------------------------------------------------------
(* Dependencies() and the recursion of dependenciesForKustomization *)

NoContent == Unmarshal(EmptyRaw)

NewFrame(dir) ==
    [dir |-> dir, phase |-> "enter", path |-> <<>>, content |-> NoContent,
     candidates |-> <<>>, i |-> 1, deps |-> <<>>]

NoRet == [dir |-> <<>>, deps |-> <<>>, err |-> FALSE, depth |-> 0]
NoProbe == [probed |-> <<>>, used |-> <<>>, kind |-> "none"]
NoResult == [list |-> <<>>, err |-> FALSE]

Top == stack[Len(stack)]

\* a variant that keeps only the dependencies of the last overlay path
AccumulateDepsOverwriting(set, depsForKustomization) ==
    insert(newStringSet, depsForKustomization)

\* line 204: deps.insert(depsForKustomization...)
AccumulateDeps(set, depsForKustomization) == insert(set, depsForKustomization)

\* the path line 278 recurses into and line 284 records
UsedPath(dir, candidate) == Join(dir, candidate)

\* Dependencies(), lines 197-199
DependenciesStart ==
    /\ pc = "idle"
    /\ \E t \in Trees : tree' = t
    /\ op' = "Dependencies"
    /\ pc' = "loop"
    /\ pathIdx' = 1
    /\ deps' = newStringSet
    /\ stack' = <<>>
    /\ returns' = <<>>
    /\ lastRet' = NoRet
    /\ lastProbe' = NoProbe
    /\ result' = NoResult
    /\ UNCHANGED <<KustomizePaths, runVars>>

\* line 200: the call of dependenciesForKustomization(kustomizePath)
DependenciesCall ==
    /\ op = "Dependencies" /\ pc = "loop"
    /\ pathIdx <= Len(KustomizePaths)
    /\ stack' = <<NewFrame(KustomizePaths[pathIdx])>>
    /\ pc' = "resolve"
    /\ UNCHANGED <<KustomizePaths, op, tree, pathIdx, deps, returns, lastRet,
                   lastProbe, result, runVars>>

\* line 206: return deps.toList(), nil
DependenciesReturn ==
    /\ op = "Dependencies" /\ pc = "loop"
    /\ pathIdx > Len(KustomizePaths)
    /\ result' = [list |-> toList(deps), err |-> FALSE]
    /\ pc' = "done"
    /\ UNCHANGED <<KustomizePaths, op, tree, stack, pathIdx, deps, returns, lastRet,
                   lastProbe, runVars>>

\* return value, nil: to the calling frame (lines 278-282) or to
\* Dependencies() (lines 200-204)
ReturnDeps(value) ==
    /\ lastRet' = [dir |-> Top.dir, deps |-> value, err |-> FALSE, depth |-> Len(stack)]
    /\ IF Len(stack) = 1
       THEN /\ stack' = <<>>
            /\ deps' = AccumulateDeps(deps, value)
            /\ returns' = Append(returns, value)
            /\ pathIdx' = pathIdx + 1
            /\ pc' = "loop"
       ELSE /\ stack' = [Front(stack) EXCEPT
                            ![Len(stack) - 1].deps = @ \o value,
                            ![Len(stack) - 1].i = @ + 1]
            /\ UNCHANGED <<deps, returns, pathIdx, pc>>
    /\ UNCHANGED <<result>>

\* return nil, err: every calling frame returns it in turn (lines 279-281),
\* and so does Dependencies() (lines 201-203)
ReturnErr ==
    /\ lastRet' = [dir |-> Top.dir, deps |-> <<>>, err |-> TRUE, depth |-> Len(stack)]
    /\ stack' = <<>>
    /\ result' = [list |-> <<>>, err |-> TRUE]
    /\ pc' = "done"
    /\ UNCHANGED <<deps, returns, pathIdx>>

\* dependenciesForKustomization, lines 245-266
ResolveEnter ==
    /\ op = "Dependencies" /\ pc = "resolve"
    /\ Top.phase = "enter"
    /\ LET found == findKustomizationConfig(tree, Top.dir)
           read  == ReadFile(tree, found.path)
           content == Unmarshal(read.kfile.raw)
       IN IF found.err THEN ReturnDeps(<<>>)
          ELSE IF read.err \/ read.kfile.state = "malformed" THEN ReturnErr
          ELSE /\ stack' = [stack EXCEPT ![Len(stack)] =
                               [@ EXCEPT !.phase = "run",
                                         !.path = found.path,
                                         !.content = content,
                                         !.candidates = content.Bases \o content.Resources,
                                         !.deps = <<found.path>>]]
               /\ UNCHANGED <<pc, pathIdx, deps, returns, lastRet, result>>
    /\ UNCHANGED <<KustomizePaths, op, tree, lastProbe, runVars>>

\* one iteration of the loop of lines 268-286
ResolveCandidate ==
    /\ op = "Dependencies" /\ pc = "resolve"
    /\ Top.phase = "run" /\ Top.i <= Len(Top.candidates)
    /\ LET candidate == Top.candidates[Top.i]
           probe == pathExistsLocally(tree, candidate, Top.dir)
           used  == UsedPath(Top.dir, candidate)
       IN IF ~probe.local
          THEN /\ stack' = [stack EXCEPT ![Len(stack)].i = @ + 1]
               /\ UNCHANGED <<pc, lastProbe>>
          ELSE IF probe.isDir
          THEN /\ lastProbe' = [probed |-> probe.path, used |-> used, kind |-> "dir"]
               /\ IF Len(stack) >= MaxStack
                  THEN pc' = "crashed" /\ UNCHANGED stack
                  ELSE stack' = Append(stack, NewFrame(used)) /\ UNCHANGED pc
          ELSE /\ lastProbe' = [probed |-> probe.path, used |-> used, kind |-> "file"]
               /\ stack' = [stack EXCEPT ![Len(stack)].i = @ + 1,
                                         ![Len(stack)].deps = Append(@, used)]
               /\ UNCHANGED pc
    /\ UNCHANGED <<KustomizePaths, op, tree, pathIdx, deps, returns, lastRet, result,
                   runVars>>

\* lines 288-326, once the candidates are exhausted
ResolveFinish ==
    /\ op = "Dependencies" /\ pc = "resolve"
    /\ Top.phase = "run" /\ Top.i > Len(Top.candidates)
    /\ ReturnDeps(Top.deps \o OwnDeps(Top.dir, Top.content))
    /\ UNCHANGED <<KustomizePaths, op, tree, lastProbe, runVars>>

----------------------------------------------------------------------------
(* Deploy, Render, Cleanup and the pipeline of renderManifests *)

\* a collaborator call: n is the number of manifests it was given (for
\* kustomize build, the number it produced)
Call(name, i, ok, n) == [name |-> name, i |-> i, ok |-> ok, n |-> n]

Doc(src) == [src |-> src, marks |-> <<>>]
Mark(list, m) == [k \in 1..Len(list) |-> [list[k] EXCEPT !.marks = Append(@, m)]]

NoRender == [manifests |-> <<>>, err |-> FALSE]
NoDeployResult == [status |-> "none", namespaces |-> {}]

\* renderManifests returns nil, err
RenderFails ==
    /\ render' = [manifests |-> <<>>, err |-> TRUE]
    /\ pc' = "rendered"

\* Deploy, line 119
DeployStart ==
    /\ pc = "idle"
    /\ op' = "Deploy"
    /\ pc' = "CheckVersion"
    /\ events' = <<"DeployInProgress">>
    /\ UNCHANGED <<KustomizePaths, pathIdx, depVars, calls, manifests, transformIdx,
                   render, namespaces, applied, deployResult>>

\* Render, line 210
RenderStart ==
    /\ pc = "idle"
    /\ op' = "Render"
    /\ pc' = "CheckVersion"
    /\ UNCHANGED <<KustomizePaths, pathIdx, depVars, runVars>>

\* Cleanup, line 184
CleanupStart ==
    /\ pc = "idle"
    /\ op' = "Cleanup"
    /\ pc' = "read"
    /\ UNCHANGED <<KustomizePaths, pathIdx, depVars, runVars>>

\* renderManifests, lines 148-151: a failed version check is only printed
CheckVersion ==
    /\ pc = "CheckVersion"
    /\ \E ok \in BOOLEAN : calls' = Append(calls, Call("CheckVersion", 0, ok, 0))
    /\ pc' = "Registry"
    /\ UNCHANGED <<KustomizePaths, op, pathIdx, depVars, manifests, transformIdx, render,
                   namespaces, applied, events, deployResult>>

\* renderManifests, lines 153-156
GetDebugHelpersRegistry ==
    /\ pc = "Registry"
    /\ \E ok \in BOOLEAN :
        /\ calls' = Append(calls, Call("GetDebugHelpersRegistry", 0, ok, 0))
        /\ IF ok THEN pc' = "read" /\ UNCHANGED render ELSE RenderFails
    /\ UNCHANGED <<KustomizePaths, op, pathIdx, depVars, manifests, transformIdx,
                   namespaces, applied, events, deployResult>>

\* what a failed readManifests leads to: lines 159-161 in renderManifests,
\* lines 185-187 in Cleanup
ReadFails ==
    IF op = "Cleanup"
    THEN /\ deployResult' = [status |-> "error", namespaces |-> {}]
         /\ pc' = "done"
         /\ UNCHANGED render
    ELSE /\ RenderFails
         /\ UNCHANGED deployResult

\* readManifests, one iteration of the loop of lines 353-364
ReadManifest ==
    /\ pc = "read"
    /\ pathIdx <= Len(KustomizePaths)
    /\ \E out \in {"error", "empty", "manifest"} :
        /\ calls' = Append(calls, Call("kustomize build", pathIdx, out # "error",
                                       IF out = "manifest" THEN 1 ELSE 0))
        /\ IF out = "error"
           THEN ReadFails /\ UNCHANGED <<manifests, pathIdx>>
           ELSE /\ manifests' = IF out = "manifest" THEN Append(manifests, Doc(pathIdx))
                                ELSE manifests
                /\ pathIdx' = pathIdx + 1
                /\ UNCHANGED <<pc, render, deployResult>>
    /\ UNCHANGED <<KustomizePaths, op, depVars, transformIdx, namespaces, applied, events>>

\* readManifests returns manifests, nil: lines 163-165 in renderManifests
ReadDone ==
    /\ pc = "read" /\ op # "Cleanup"
    /\ pathIdx > Len(KustomizePaths)
    /\ IF Len(manifests) = 0
       THEN render' = [manifests |-> <<>>, err |-> FALSE] /\ pc' = "rendered"
       ELSE pc' = "ReplaceImages" /\ UNCHANGED render
    /\ UNCHANGED <<KustomizePaths, op, pathIdx, depVars, calls, manifests, transformIdx,
                   namespaces, applied, events, deployResult>>

\* renderManifests, lines 167-170
ReplaceImages ==
    /\ pc = "ReplaceImages"
    /\ \E ok \in BOOLEAN :
        /\ calls' = Append(calls, Call("ReplaceImages", 0, ok, Len(manifests)))
        /\ IF ok
           THEN /\ manifests' = Mark(manifests, <<"ReplaceImages", 0>>)
                /\ transformIdx' = 1
                /\ pc' = "transform"
                /\ UNCHANGED render
           ELSE RenderFails /\ UNCHANGED <<manifests, transformIdx>>
    /\ UNCHANGED <<KustomizePaths, op, pathIdx, depVars, namespaces, applied, events,
                   deployResult>>

\* a variant that goes on to the next transform after a failed one
TransformIgnoringFailure ==
    /\ pc = "transform"
    /\ transformIdx <= NumTransforms
    /\ \E ok \in BOOLEAN :
        calls' = Append(calls, Call("transform", transformIdx, ok, Len(manifests)))
    /\ manifests' = Mark(manifests, <<"transform", transformIdx>>)
    /\ transformIdx' = transformIdx + 1
    /\ UNCHANGED <<KustomizePaths, op, pc, pathIdx, depVars, render, namespaces, applied,
                   events, deployResult>>

\* renderManifests, one iteration of the loop of lines 172-177
Transform ==
    /\ pc = "transform"
    /\ transformIdx <= NumTransforms
    /\ \E ok \in BOOLEAN :
        /\ calls' = Append(calls, Call("transform", transformIdx, ok, Len(manifests)))
        /\ IF ok
           THEN /\ manifests' = Mark(manifests, <<"transform", transformIdx>>)
                /\ transformIdx' = transformIdx + 1
                /\ UNCHANGED <<pc, render>>
           ELSE RenderFails /\ UNCHANGED <<manifests, transformIdx>>
    /\ UNCHANGED <<KustomizePaths, op, pathIdx, depVars, namespaces, applied, events,
                   deployResult>>

\* renderManifests, line 179
SetLabels ==
    /\ pc = "transform"
    /\ transformIdx > NumTransforms
    /\ \E ok \in BOOLEAN :
        /\ calls' = Append(calls, Call("SetLabels", 0, ok, Len(manifests)))
        /\ IF ok
           THEN /\ manifests' = Mark(manifests, <<"SetLabels", 0>>)
                /\ render' = [manifests |-> manifests', err |-> FALSE]
                /\ pc' = "rendered"
           ELSE RenderFails /\ UNCHANGED manifests
    /\ UNCHANGED <<KustomizePaths, op, pathIdx, depVars, transformIdx, namespaces, applied,
                   events, deployResult>>

\* a variant without the early return on an empty manifest list
DeployAfterRenderNoEmptyCheck ==
    /\ op = "Deploy" /\ pc = "rendered"
    /\ IF render.err
       THEN /\ events' = Append(events, "DeployFailed")
            /\ deployResult' = [status |-> "error", namespaces |-> {}]
            /\ pc' = "done"
       ELSE /\ pc' = "CollectNamespaces"
            /\ UNCHANGED <<events, deployResult>>
    /\ UNCHANGED <<KustomizePaths, op, pathIdx, depVars, calls, manifests, transformIdx,
                   render, namespaces, applied>>

\* Deploy, lines 121-130
DeployAfterRender ==
    /\ op = "Deploy" /\ pc = "rendered"
    /\ IF render.err
       THEN /\ events' = Append(events, "DeployFailed")
            /\ deployResult' = [status |-> "error", namespaces |-> {}]
            /\ pc' = "done"
       ELSE IF Len(render.manifests) = 0
       THEN /\ events' = Append(events, "DeployComplete")
            /\ deployResult' = [status |-> "success", namespaces |-> {}]
            /\ pc' = "done"
       ELSE /\ pc' = "CollectNamespaces"
            /\ UNCHANGED <<events, deployResult>>
    /\ UNCHANGED <<KustomizePaths, op, pathIdx, depVars, calls, manifests, transformIdx,
                   render, namespaces, applied>>

\* a variant that fails the deploy when the namespaces cannot be collected
CollectNamespacesFatal ==
    /\ op = "Deploy" /\ pc = "CollectNamespaces"
    /\ \E ok \in BOOLEAN :
        /\ calls' = Append(calls, Call("CollectNamespaces", 0, ok, Len(render.manifests)))
        /\ IF ok
           THEN /\ namespaces' = {render.manifests[k].src : k \in 1..Len(render.manifests)}
                /\ pc' = "Apply"
                /\ UNCHANGED <<events, deployResult>>
           ELSE /\ namespaces' = {}
                /\ events' = Append(events, "DeployFailed")
                /\ deployResult' = [status |-> "error", namespaces |-> {}]
                /\ pc' = "done"
    /\ UNCHANGED <<KustomizePaths, op, pathIdx, depVars, manifests, transformIdx, render,
                   applied>>

\* Deploy, lines 132-136
CollectNamespaces ==
    /\ op = "Deploy" /\ pc = "CollectNamespaces"
    /\ \E ok \in BOOLEAN :
        /\ calls' = Append(calls, Call("CollectNamespaces", 0, ok, Len(render.manifests)))
        /\ IF ok
           THEN /\ namespaces' = {render.manifests[k].src : k \in 1..Len(render.manifests)}
                /\ UNCHANGED events
           ELSE /\ namespaces' = {}
                /\ events' = Append(events, "DeployInfoEvent")
    /\ pc' = "Apply"
    /\ UNCHANGED <<KustomizePaths, op, pathIdx, depVars, manifests, transformIdx, render,
                   applied, deployResult>>

\* Deploy, lines 138-144
Apply ==
    /\ op = "Deploy" /\ pc = "Apply"
    /\ \E ok \in BOOLEAN :
        /\ calls' = Append(calls, Call("Apply", 0, ok, Len(render.manifests)))
        /\ applied' = render.manifests
        /\ IF ok
           THEN /\ events' = Append(events, "DeployComplete")
                /\ deployResult' = [status |-> "success", namespaces |-> namespaces]
           ELSE /\ events' = Append(events, "DeployFailed")
                /\ deployResult' = [status |-> "error", namespaces |-> {}]
    /\ pc' = "done"
    /\ UNCHANGED <<KustomizePaths, op, pathIdx, depVars, manifests, transformIdx, render,
                   namespaces>>

\* Render, lines 211-214
RenderOutput ==
    /\ op = "Render" /\ pc = "rendered"
    /\ IF render.err
       THEN /\ deployResult' = [status |-> "error", namespaces |-> {}]
            /\ UNCHANGED calls
       ELSE \E ok \in BOOLEAN :
            /\ calls' = Append(calls, Call("outputRenderedManifests", 0, ok,
                                           Len(render.manifests)))
            /\ deployResult' = [status |-> IF ok THEN "success" ELSE "error",
                                namespaces |-> {}]
    /\ pc' = "done"
    /\ UNCHANGED <<KustomizePaths, op, pathIdx, depVars, manifests, transformIdx, render,
                   namespaces, applied, events>>

\* Cleanup, lines 189-193
Delete ==
    /\ op = "Cleanup" /\ pc = "read"
    /\ pathIdx > Len(KustomizePaths)
    /\ \E ok \in BOOLEAN :
        /\ calls' = Append(calls, Call("Delete", 0, ok, Len(manifests)))
        /\ deployResult' = [status |-> IF ok THEN "success" ELSE "error",
                            namespaces |-> {}]
    /\ pc' = "done"
    /\ UNCHANGED <<KustomizePaths, op, pathIdx, depVars, manifests, transformIdx, render,
                   namespaces, applied, events>>

OverlayPaths == {<<"a">>, <<"b">>, <<"c">>}

PathLists == UNION { [1..n -> OverlayPaths] : n \in 1..MaxPaths }

Init ==
    /\ KustomizePaths \in PathLists
    /\ op = "none"
    /\ pc = "idle"
    /\ tree = EmptyTree
    /\ stack = <<>>
    /\ pathIdx = 1
    /\ deps = newStringSet
    /\ returns = <<>>
    /\ lastRet = NoRet
    /\ lastProbe = NoProbe
    /\ result = NoResult
    /\ calls = <<>>
    /\ manifests = <<>>
    /\ transformIdx = 1
    /\ render = NoRender
    /\ namespaces = {}
    /\ applied = <<>>
    /\ events = <<>>
    /\ deployResult = NoDeployResult

\* the operation has returned; the deployer is ready for the next one
Return ==
    /\ pc = "done"
    /\ op' = "none"
    /\ pc' = "idle"
    /\ tree' = EmptyTree
    /\ stack' = <<>>
    /\ pathIdx' = 1
    /\ deps' = newStringSet
    /\ returns' = <<>>
    /\ lastRet' = NoRet
    /\ lastProbe' = NoProbe
    /\ result' = NoResult
    /\ calls' = <<>>
    /\ manifests' = <<>>
    /\ transformIdx' = 1
    /\ render' = NoRender
    /\ namespaces' = {}
    /\ applied' = <<>>
    /\ events' = <<>>
    /\ deployResult' = NoDeployResult
    /\ UNCHANGED KustomizePaths

Next ==
    \/ DependenciesStart
    \/ DependenciesCall
    \/ DependenciesReturn
    \/ ResolveEnter
    \/ ResolveCandidate
    \/ ResolveFinish
    \/ DeployStart
    \/ RenderStart
    \/ CleanupStart
    \/ CheckVersion
    \/ GetDebugHelpersRegistry
    \/ ReadManifest
    \/ ReadDone
    \/ ReplaceImages
    \/ Transform
    \/ SetLabels
    \/ DeployAfterRender
    \/ CollectNamespaces
    \/ Apply
    \/ RenderOutput
    \/ Delete
    \/ Return

Spec == Init /\ [][Next]_vars

----------------------------------------------------------------------------
(* What the file system holds, stated without the resolver's own operators *)

\* dir contains none of the accepted kustomization filenames
HasNoKustomization(t, dir) ==
    \A name \in {"kustomization.yaml", "kustomization.yml", "Kustomization"} :
        LET abs == Resolve(dir \o <<name>>) IN ~IsDirAt(t, abs) /\ ~IsFileAt(t, abs)

\* the kustomization file as written in dir
RawOf(t, dir) == IF Resolve(dir) \in DOMAIN t THEN t[Resolve(dir)].raw ELSE EmptyRaw

\* the absolute path an entry written in the config of directory d names
Named(d, entry) == IF IsAbs(entry) THEN Clean(entry) ELSE Clean(d \o entry)

HasConfig(t, d) == d \in DOMAIN t /\ t[d].name # "none"

\* the directories the bases and resources of d's config name
DirsNamedBy(t, d) ==
    IF ~HasConfig(t, d) THEN {}
    ELSE {Named(d, e) : e \in Range(t[d].raw.bases \o t[d].raw.resources)}
            \cap ({Cwd, <<"/">>} \cup DOMAIN t)

RECURSIVE Reachable(_, _)
Reachable(t, ds) ==
    LET more == ds \cup UNION {DirsNamedBy(t, d) : d \in ds}
    IN IF more = ds THEN ds ELSE Reachable(t, more)

\* every path the config of d references, but for the directories
FilesNamedBy(t, d) ==
    IF ~HasConfig(t, d) THEN {}
    ELSE LET raw == t[d].raw
             content == Unmarshal(raw)
             paths(entries) == {entries[k].Path : k \in 1..Len(entries)} \ {<<>>}
             gen(gs) == UNION {Range(gs[k].Files) \cup Range(gs[k].Envs) \cup {gs[k].Env} :
                                  k \in 1..Len(gs)} \ {<<>>}
         IN {d \o <<t[d].name>>}
            \cup {Named(d, e) : e \in
                     Range(raw.bases) \cup Range(raw.resources) \cup Range(raw.crds)
                     \cup paths(content.PatchesStrategicMerge) \cup paths(content.Patches)
                     \cup paths(content.PatchesJSON6902)
                     \cup gen(raw.configMapGenerator) \cup gen(raw.secretGenerator)}

\* the files on disk that the overlay rooted at dir references, transitively
ReferencedFiles(t, dir) ==
    {f \in UNION {FilesNamedBy(t, d) : d \in Reachable(t, {Resolve(dir)})} : IsFileAt(t, f)}

\* the files on disk among the paths of a dependency list
FilesIn(t, list) == {f \in {Resolve(p) : p \in Range(list)} : IsFileAt(t, f)}

HasLocalDirResource(t, dir) ==
    HasConfig(t, Resolve(dir))
        /\ \E e \in Range(t[Resolve(dir)].raw.resources) :
              Named(Resolve(dir), e) \in DOMAIN t \cup {Cwd}

----------------------------------------------------------------------------
(* Claims *)

\* C1: a directory holding none of the accepted kustomization filenames makes
\* dependenciesForKustomization return no dependency and no error, at the root
\* and at every recursion depth, and Dependencies() never fails in such a
\* directory.
C1_NoConfigIsEmpty ==
    /\ (lastRet.depth > 0 /\ HasNoKustomization(tree, lastRet.dir))
          => (lastRet.deps = <<>> /\ ~lastRet.err)
    /\ (op = "Dependencies" /\ pc = "done" /\ result.err)
          => ~HasNoKustomization(tree, lastRet.dir)

C1_Witness ==
    /\ lastRet.depth = 3
    /\ HasNoKustomization(tree, lastRet.dir)
    /\ lastRet.deps = <<>>
    /\ pc = "resolve" /\ Len(stack) = 2

\* C2: when the resources of an overlay name a local directory, the files on
\* disk among the returned dependencies are exactly the files the visited
\* configs reference, directly or transitively.
C2_TransitiveFiles ==
    (op = "Dependencies" /\ pc = "done" /\ ~result.err)
        => \A i \in 1..Len(returns) :
              HasLocalDirResource(tree, KustomizePaths[i])
                  => FilesIn(tree, returns[i]) = ReferencedFiles(tree, KustomizePaths[i])

\* C9: the path recorded or recursed into for a local bases/resources entry is
\* the path that pathExistsLocally probed.
C9_UsedIsProbed ==
    lastProbe.kind # "none" => lastProbe.used = lastProbe.probed

\* C10: every call of dependenciesForKustomization returns: the recursion
\* never goes on until the goroutine stack is exhausted.
C10_ResolveReturns == pc # "crashed"

\* the stack is exhausted only by a recursion that has come back to a
\* directory it is still resolving, which no deeper stack would end
CrashIsCycle ==
    pc = "crashed" =>
        \E i, j \in 1..Len(stack) :
            i < j /\ Resolve(stack[i].dir) = Resolve(stack[j].dir)

PathStyles == {0, DoubleQuotedStyle, SingleQuotedStyle}

Populated(field) == field # <<>>

\* the frames that hold a parsed kustomization
ParsedFrames == {k \in 1..Len(stack) : stack[k].phase = "run"}

\* the last return came from a directory whose kustomization was parsed
ReturnedParsed ==
    lastRet.depth > 0 /\ ~lastRet.err /\ ~HasNoKustomization(tree, lastRet.dir)

NoDuplicates(list) == \A i, j \in 1..Len(list) : i # j => list[i] # list[j]

\* C4: when no overlay path fails, Dependencies() returns each path that some
\* call of dependenciesForKustomization returned once, and nothing else; the
\* calls do not depend on one another.
C4_DeduplicatedUnion ==
    (op = "Dependencies" /\ pc = "done" /\ ~result.err) =>
        /\ Len(returns) = Len(KustomizePaths)
        /\ NoDuplicates(result.list)
        /\ Range(result.list) = UNION {Range(returns[i]) : i \in 1..Len(returns)}
        /\ \A i, j \in 1..Len(returns) :
              KustomizePaths[i] = KustomizePaths[j] => returns[i] = returns[j]

C4_Witness ==
    /\ op = "Dependencies" /\ pc = "done" /\ ~result.err
    /\ Len(returns) = 2
    /\ Range(returns[1]) \cap Range(returns[2]) # {}
    /\ Range(returns[1]) # Range(returns[2])
    /\ Len(result.list) < Len(returns[1]) + Len(returns[2])

CallsNamed(name) == {k \in 1..Len(calls) : calls[k].name = name}

\* C5: a Deploy whose rendering succeeds with no manifest reports success with
\* no namespaces, and neither collects namespaces nor applies.
C5_EmptyDeploy ==
    /\ (op = "Deploy" /\ pc = "done" /\ ~render.err /\ render.manifests = <<>>) =>
          /\ deployResult = [status |-> "success", namespaces |-> {}]
          /\ CallsNamed("Apply") = {}
          /\ CallsNamed("CollectNamespaces") = {}
          /\ applied = <<>>
          /\ events = <<"DeployInProgress", "DeployComplete">>
    /\ (op = "Deploy" /\ pc \in {"CollectNamespaces", "Apply"}) => render.manifests # <<>>

C5_Witness ==
    /\ op = "Deploy" /\ pc = "done" /\ ~render.err /\ render.manifests = <<>>
    /\ deployResult.status = "success"
    /\ Cardinality(CallsNamed("kustomize build")) = Len(KustomizePaths)

CollectFailed == \E k \in CallsNamed("CollectNamespaces") : ~calls[k].ok

\* C6: a failed namespace collection does not fail the Deploy: the rendered
\* manifests are applied, and the Deploy fails exactly when Apply fails.
C6_CollectFailureNotFatal ==
    /\ (op = "Deploy" /\ pc = "done" /\ CollectFailed) =>
          /\ render.manifests # <<>>
          /\ applied = render.manifests
          /\ Cardinality(CallsNamed("Apply")) = 1
          /\ \A k \in CallsNamed("Apply") :
                deployResult.status = IF calls[k].ok THEN "success" ELSE "error"
    /\ (op = "Deploy" /\ CollectFailed) => pc \in {"Apply", "done"}

C6_Witness ==
    /\ op = "Deploy" /\ pc = "done" /\ CollectFailed
    /\ deployResult.status = "success"
    /\ applied # <<>>

IsStage(c) == c.name \in {"kustomize build", "ReplaceImages", "transform", "SetLabels"}

Pipeline == SelectSeq(calls, IsStage)

Stages == [k \in 1..Len(Pipeline) |-> <<Pipeline[k].name, Pipeline[k].i>>]

\* the stages of a complete run over n overlay paths
StagesInOrder(n) ==
    [k \in 1..n |-> <<"kustomize build", k>>]
        \o <<<<"ReplaceImages", 0>>>>
        \o [k \in 1..NumTransforms |-> <<"transform", k>>]
        \o <<<<"SetLabels", 0>>>>

Rendered == op \in {"Deploy", "Render"} /\ pc \in {"rendered", "CollectNamespaces", "Apply", "done"}

\* C7: renderManifests reads every overlay, then replaces images, then runs
\* the transforms in registration order, then sets labels, each step only after
\* all earlier ones succeeded; an empty aggregate skips everything after the
\* reads and yields an empty list; a failed step ends the pipeline in an error.
C7_PipelineOrder ==
    op \in {"Deploy", "Render"} =>
        /\ Stages = SubSeq(StagesInOrder(Len(KustomizePaths)), 1, Len(Stages))
        /\ \A k \in 1..(Len(Pipeline) - 1) : Pipeline[k].ok
        /\ \A k \in 1..Len(Pipeline) :
              Pipeline[k].name # "kustomize build" => Pipeline[k].n > 0
        /\ Rendered =>
              /\ (Len(Pipeline) > 0 /\ ~Pipeline[Len(Pipeline)].ok) => render.err
              /\ ( /\ Len(Pipeline) = Len(KustomizePaths)
                   /\ \A k \in 1..Len(Pipeline) : Pipeline[k].ok /\ Pipeline[k].n = 0 )
                    => render = [manifests |-> <<>>, err |-> FALSE]
              /\ (~render.err /\ render.manifests # <<>>) =>
                    /\ Stages = StagesInOrder(Len(KustomizePaths))
                    /\ \A d \in 1..Len(render.manifests) :
                          render.manifests[d].marks
                              = SubSeq(Stages, Len(KustomizePaths) + 1, Len(Stages))

C7_Witness ==
    /\ Rendered /\ render.err
    /\ Len(Pipeline) > 0
    /\ Pipeline[Len(Pipeline)] = [name |-> "transform", i |-> 1, ok |-> FALSE, n |-> 1]

\* C8, as the code has it: a parsed patchesStrategicMerge entry never has both
\* path and inline content, and has exactly one unless its scalar is empty; a
\* patches entry written as a bare string has that string for its path and no
\* inline content; one written as a mapping carries path and patch as written,
\* be it both or neither.
C8_FieldsAsWritten ==
    \A k \in ParsedFrames :
        LET raw == RawOf(tree, stack[k].dir)
            smp == stack[k].content.PatchesStrategicMerge
            pts == stack[k].content.Patches
        IN /\ Len(smp) = Len(raw.patchesStrategicMerge)
           /\ \A n \in 1..Len(smp) :
                 /\ ~(Populated(smp[n].Path) /\ Populated(smp[n].Patch))
                 /\ Populated(raw.patchesStrategicMerge[n].Value)
                       => (Populated(smp[n].Path) # Populated(smp[n].Patch))
           /\ Len(pts) = Len(raw.patches)
           /\ \A n \in 1..Len(pts) :
                 IF raw.patches[n].kind = "str"
                 THEN pts[n] = [Path |-> raw.patches[n].path, Patch |-> <<>>]
                 ELSE pts[n] = [Path |-> raw.patches[n].path, Patch |-> raw.patches[n].patch]

C8_Witness ==
    \E k \in ParsedFrames :
        LET raw == RawOf(tree, stack[k].dir).patches
            pts == stack[k].content.Patches
        IN \E s, b, n \in 1..Len(pts) :
              /\ raw[s].kind = "str" /\ Populated(pts[s].Path) /\ ~Populated(pts[s].Patch)
              /\ Populated(pts[b].Path) /\ Populated(pts[b].Patch)
              /\ ~Populated(pts[n].Path) /\ ~Populated(pts[n].Patch)

\* C8, as claimed: every parsed patches and patchesStrategicMerge entry has
\* exactly one of path and inline content.
C8_ExactlyOne ==
    \A k \in ParsedFrames :
        \A e \in Range(stack[k].content.PatchesStrategicMerge)
                    \cup Range(stack[k].content.Patches) :
            Populated(e.Path) # Populated(e.Patch)

====
